---- MODULE Spec2Model ----
(***************************************************************************)
(* Lifecycle, asynchronous loading and disposal bookkeeping of the three   *)
(* demos of threejs-epita: GLTFExample (gltf-example.ts), PlanetsExample   *)
(* (planet-example.ts) and TextureExample (texture-example.ts).            *)
(*                                                                         *)
(* The base class Example (./example) is not part of the sources at hand:  *)
(* its initialize/destroy/render/resize are modelled from the design       *)
(* document (ExampleInitialize, ExampleDestroy, ExampleRender,             *)
(* ExampleResize).  The host that calls the demo's methods is not part of  *)
(* the sources either; the demos do not guard their methods, so the host   *)
(* may call them in any order, a bounded number of times.                  *)
(***************************************************************************)
EXTENDS Integers, Sequences, FiniteSets, TLC

VARIABLES
  demo,               \* which demo class was constructed
  life,               \* Example lifecycle: "uninitialized", "initialized", "destroyed"
  inits,              \* number of initialize() calls so far
  destroys,           \* number of destroy() calls so far
  updates,            \* number of update() calls so far
  renders,            \* number of render() calls so far
  sceneChildren,      \* this._scene.children, a set of nodes <<name, generation>>
  disposeCount,       \* geometry/material created so far -> number of dispose() calls on it
  directRenders,      \* number of this._renderer.render(scene, cam) submissions
  composerRenders,    \* number of this._composer.render() submissions
  raised,             \* a call threw (TypeError on undefined)
  gltfLoad,           \* GLTFExample: one record per loader.load() call
  mixer,              \* GLTFExample._mixer: Undefined or <<g>>, the mixer of the model of load g
  mixerUpdates,       \* number of AnimationMixer.update() invocations
  surfaceSize,        \* size handed to Example.resize
  depthTargetSize,    \* size of _bokeh.renderTargetDepth
  composerSize,       \* size of _composer
  disposableMaterial, \* PlanetsExample.disposableMaterial
  disposableGeometry, \* PlanetsExample.disposableGeometry
  sun, earth, mars,   \* PlanetsExample.sun/earth/mars: 0 (null) or the generation of the mesh
  rotationZ,          \* accumulated Z rotation of the meshes sun/earth/mars refer to
  systemVelocity,     \* PlanetsExample.systemVelocity.velocity
  earthVelocity,      \* PlanetsExample.earthVelocity.velocity
  marsVelocity,       \* PlanetsExample.marsVelocity.velocity
  texturesLoaded,     \* TextureExample: per initialize(), the textures whose load has ended
  objLoad,            \* TextureExample: per initialize(), state of the OBJ load
  hdrLoad,            \* TextureExample: per initialize(), state of the HDR cubemap load
  meshMaterial,       \* TextureExample: per initialize(), material on the loaded OBJ's meshes
  environment         \* this._scene.environment: 0 (null) or generation of the irradiance map

vars == <<demo, life, inits, destroys, updates, renders, sceneChildren, disposeCount,
          directRenders, composerRenders, raised, gltfLoad, mixer, mixerUpdates,
          surfaceSize, depthTargetSize, composerSize, disposableMaterial,
          disposableGeometry, sun, earth, mars, rotationZ, systemVelocity,
          earthVelocity, marsVelocity, texturesLoaded, objLoad, hdrLoad,
          meshMaterial, environment>>

commonVars == <<demo, life, inits, destroys, updates, renders, sceneChildren,
                disposeCount, directRenders, composerRenders, raised>>
gltfVars == <<gltfLoad, mixer, mixerUpdates, surfaceSize, depthTargetSize, composerSize>>
planetVars == <<disposableMaterial, disposableGeometry, sun, earth, mars, rotationZ,
                systemVelocity, earthVelocity, marsVelocity>>
textureVars == <<texturesLoaded, objLoad, hdrLoad, meshMaterial, environment>>

----------------------------------------------------------------------------
(* Bounds of the model. *)

MaxInitGLTF == 2
MaxInitPlanets == 2
MaxInitTexture == 1
MaxDestroy == 2
MaxUpdates == 2
MaxRenders == 1

(* Program constants.  Angles are counted in units of 0.0005 rad. *)
SystemVelocity0 == 3
EarthVelocity0 == 10
MarsVelocity0 == 6
VelocityMax == 1000
TextureCount == 4

(* Inputs. *)
Demos == {"gltf", "planets", "texture"}
Undefined == <<>>
InitialSize == <<1920, 1080>>
Sizes == {<<800, 600>>, <<1024, 768>>}
Deltas == {0, 16}

----------------------------------------------------------------------------
(* Example base class (modelled from the design document). *)

ExampleInitialize == "initialized"
ExampleDestroy == "destroyed"
ExampleRender(n) == n + 1
ExampleResize(w, h) == <<w, h>>

(* Function f extended with the keys of S, each mapped to 0. *)
Register(f, S) == [r \in DOMAIN f \cup S |-> IF r \in DOMAIN f THEN f[r] ELSE 0]


----------------------------------------------------------------------------
Init ==
  /\ demo \in Demos
  /\ life = "uninitialized"
  /\ inits = 0 /\ destroys = 0 /\ updates = 0 /\ renders = 0
  /\ sceneChildren = {}
  /\ disposeCount = <<>>
  /\ directRenders = 0 /\ composerRenders = 0
  /\ raised = FALSE
  /\ gltfLoad = <<>>
  /\ mixer = Undefined
  /\ mixerUpdates = 0
  /\ surfaceSize = InitialSize
  /\ depthTargetSize = InitialSize
  /\ composerSize = InitialSize
  /\ disposableMaterial = {} /\ disposableGeometry = {}
  /\ sun = 0 /\ earth = 0 /\ mars = 0
  /\ rotationZ = [sun |-> 0, earth |-> 0, mars |-> 0]
  /\ systemVelocity = SystemVelocity0
  /\ earthVelocity = EarthVelocity0
  /\ marsVelocity = MarsVelocity0
  /\ texturesLoaded = <<>>
  /\ objLoad = <<>>
  /\ hdrLoad = <<>>
  /\ meshMaterial = <<>>
  /\ environment = 0

----------------------------------------------------------------------------
(* GLTFExample *)

(* The two lights the constructor creates; initialize() adds them to the scene. *)
Lights == {<<"directionalLight", 0>>, <<"pointLight", 0>>}

(* this._bokeh after construction. *)
bokeh == <<"BokehPass">>

(* Contents a loaded glTF scene may have: a sequence of meshes, each with a
   geometry and either one material or an array of materials.  Geometries and
   materials are numbered within the model; equal numbers are the same object. *)
ModelScenes ==
  << << [geometry |-> 1, isArray |-> FALSE, material |-> 1] >>,
     << [geometry |-> 1, isArray |-> FALSE, material |-> 1],
        [geometry |-> 2, isArray |-> FALSE, material |-> 1] >>,
     << [geometry |-> 1, isArray |-> TRUE, material |-> <<1, 2>>] >>,
     << [geometry |-> 1, isArray |-> FALSE, material |-> 1],
        [geometry |-> 1, isArray |-> FALSE, material |-> 2] >> >>

(* Array.isArray(mesh.material) ? mesh.material : [mesh.material] *)
MeshMaterials(mesh) == IF mesh.isArray THEN mesh.material ELSE <<mesh.material>>

MeshesOf(g) == ModelScenes[gltfLoad[g].scene]

(* The geometries and materials of the model of load g, whose scene is ModelScenes[k]. *)
ModelResources(g, k) ==
  {<<"geometry", g, ModelScenes[k][i].geometry>> : i \in DOMAIN ModelScenes[k]}
  \cup UNION {{<<"material", g, MeshMaterials(ModelScenes[k][i])[j]>> :
                  j \in DOMAIN MeshMaterials(ModelScenes[k][i])} : i \in DOMAIN ModelScenes[k]}

(* Number of dispose() calls the traversal of model g makes on resource r:
   one per mesh for its geometry, one per mesh and material of the mesh. *)
ModelDisposeCalls(g, r) ==
  Cardinality({i \in DOMAIN MeshesOf(g) : r = <<"geometry", g, MeshesOf(g)[i].geometry>>})
  + Cardinality({p \in (DOMAIN MeshesOf(g)) \X (1..2) :
       /\ p[2] \in DOMAIN MeshMaterials(MeshesOf(g)[p[1]])
       /\ r = <<"material", g, MeshMaterials(MeshesOf(g)[p[1]])[p[2]]>>})

(* this._scene.traverse(...): dispose() calls on r over every mesh below the scene. *)
TraverseDisposeCalls(children, r) ==
  IF r[1] \in {"geometry", "material"} /\ <<"model", r[2]>> \in children
  THEN ModelDisposeCalls(r[2], r) ELSE 0

(* this._mixer?.update(delta) with an unguarded call: undefined.update throws. *)
MixerUpdateUnguarded(m) ==
  IF m = Undefined THEN [raised |-> TRUE, invoked |-> FALSE]
  ELSE [raised |-> FALSE, invoked |-> TRUE]

(* this._mixer?.update(delta) *)
MixerUpdate(m) ==
  IF m = Undefined THEN [raised |-> FALSE, invoked |-> FALSE]
  ELSE [raised |-> FALSE, invoked |-> TRUE]

(* resize() that forgets this._composer.setSize(w, h). *)
ResizeTargetsNoComposer(b, depth, composer, w, h) ==
  [depth |-> IF b = Undefined THEN depth ELSE <<w, h>>,
   composer |-> composer, raised |-> FALSE]

(* this._bokeh?.renderTargetDepth.setSize(w, h); this._composer.setSize(w, h) *)
ResizeTargets(b, depth, composer, w, h) ==
  [depth |-> IF b = Undefined THEN depth ELSE <<w, h>>,
   composer |-> <<w, h>>, raised |-> FALSE]

GLTFInitialize ==
  /\ demo = "gltf"
  /\ inits < MaxInitGLTF
  /\ life' = ExampleInitialize
  /\ inits' = inits + 1
  /\ gltfLoad' = Append(gltfLoad, [status |-> "pending", scene |-> 0])
  /\ sceneChildren' = sceneChildren \cup Lights
  /\ UNCHANGED <<demo, destroys, updates, renders, disposeCount, directRenders,
                 composerRenders, raised, mixer, mixerUpdates, surfaceSize,
                 depthTargetSize, composerSize>>
  /\ UNCHANGED <<planetVars, textureVars>>

(* The load callback of loader.load: the model of load g arrives with scene k. *)
GLTFLoaded(g, k) ==
  /\ demo = "gltf"
  /\ g \in DOMAIN gltfLoad
  /\ gltfLoad[g].status = "pending"
  /\ gltfLoad' = [gltfLoad EXCEPT ![g] = [status |-> "done", scene |-> k]]
  /\ disposeCount' = Register(disposeCount, ModelResources(g, k))
  /\ mixer' = <<g>>
  /\ sceneChildren' = sceneChildren \cup {<<"model", g>>}
  /\ UNCHANGED <<demo, life, inits, destroys, updates, renders, directRenders,
                 composerRenders, raised, mixerUpdates, surfaceSize,
                 depthTargetSize, composerSize>>
  /\ UNCHANGED <<planetVars, textureVars>>

(* The load fails: no error callback is given, nothing of the demo changes. *)
GLTFLoadFailed(g) ==
  /\ demo = "gltf"
  /\ g \in DOMAIN gltfLoad
  /\ gltfLoad[g].status = "pending"
  /\ gltfLoad' = [gltfLoad EXCEPT ![g].status = "failed"]
  /\ UNCHANGED <<commonVars, mixer, mixerUpdates, surfaceSize, depthTargetSize,
                 composerSize, planetVars, textureVars>>

GLTFDestroy ==
  /\ demo = "gltf"
  /\ destroys < MaxDestroy
  /\ life' = ExampleDestroy
  /\ destroys' = destroys + 1
  /\ disposeCount' = [r \in DOMAIN disposeCount |->
                         disposeCount[r] + TraverseDisposeCalls(sceneChildren, r)]
  /\ sceneChildren' = {}
  /\ UNCHANGED <<demo, inits, updates, renders, directRenders, composerRenders,
                 raised, gltfVars, planetVars, textureVars>>

GLTFRender ==
  /\ demo = "gltf"
  /\ renders < MaxRenders
  /\ renders' = renders + 1
  /\ composerRenders' = composerRenders + 1
  /\ UNCHANGED <<demo, life, inits, destroys, updates, sceneChildren, disposeCount,
                 directRenders, raised, gltfVars, planetVars, textureVars>>

GLTFUpdate ==
  /\ demo = "gltf"
  /\ updates < MaxUpdates
  /\ updates' = updates + 1
  /\ LET call == MixerUpdate(mixer) IN
       /\ raised' = (raised \/ call.raised)
       /\ mixerUpdates' = IF call.invoked THEN mixerUpdates + 1 ELSE mixerUpdates
       /\ directRenders' = IF call.raised THEN directRenders ELSE directRenders + 1
  /\ UNCHANGED <<demo, life, inits, destroys, renders, sceneChildren, disposeCount,
                 composerRenders, gltfLoad, mixer, surfaceSize, depthTargetSize,
                 composerSize, planetVars, textureVars>>

GLTFResize(w, h) ==
  /\ demo = "gltf"
  /\ surfaceSize' = ExampleResize(w, h)
  /\ LET t == ResizeTargets(bokeh, depthTargetSize, composerSize, w, h) IN
       /\ depthTargetSize' = t.depth
       /\ composerSize' = t.composer
       /\ raised' = (raised \/ t.raised)
  /\ UNCHANGED <<demo, life, inits, destroys, updates, renders, sceneChildren,
                 disposeCount, directRenders, composerRenders, gltfLoad, mixer,
                 mixerUpdates, planetVars, textureVars>>

NextGLTF ==
  \/ GLTFInitialize
  \/ \E g \in 1..MaxInitGLTF, k \in DOMAIN ModelScenes : GLTFLoaded(g, k)
  \/ \E g \in 1..MaxInitGLTF : GLTFLoadFailed(g)
  \/ GLTFDestroy
  \/ GLTFRender
  \/ GLTFUpdate
  \/ \E s \in Sizes : GLTFResize(s[1], s[2])

InitGLTF == Init /\ demo = "gltf"
SpecGLTF == InitGLTF /\ [][NextGLTF]_vars

----------------------------------------------------------------------------
(* PlanetsExample *)

Bodies == {"sun", "earth", "mars"}

(* Values the debug panel can set a velocity to (its range is 0 .. 0.5). *)
GuiVelocities == {0, VelocityMax}

(* The materials and geometries initialize() number g creates and tracks. *)
PlanetMaterials(g) ==
  {<<"lineMaterial", g>>, <<"basicMaterial", g>>, <<"earthMaterial", g>>,
   <<"marsMaterial", g>>}
PlanetGeometries(g) ==
  {<<"sunGeometry", g>>, <<"earthGeom", g>>, <<"circleGeom", g>>, <<"orbitEdges", g>>,
   <<"marsGeom", g>>, <<"marsOrbitGeom", g>>, <<"marsOrbitEdge", g>>}

(* The nodes initialize() number g adds to the scene root. *)
PlanetNodes(g) == {<<"sun", g>>, <<"orbit", g>>, <<"marsOrbit", g>>}

(* destroy() that leaves the tracked set as it is. *)
ClearedSetKept(s) == s

(* this.disposableGeometry.clear(); this.disposableMaterial.clear() *)
ClearedSet(s) == {}

(* update() that turns every body by the system's velocity. *)
BodyVelocitySystemOnly(body) == systemVelocity

(* The angle update() passes to rotateZ for each body. *)
BodyVelocity(body) ==
  CASE body = "sun" -> systemVelocity
    [] body = "earth" -> earthVelocity
    [] body = "mars" -> marsVelocity

PlanetsInitialize ==
  /\ demo = "planets"
  /\ inits < MaxInitPlanets
  /\ life' = ExampleInitialize
  /\ inits' = inits + 1
  /\ disposableMaterial' = disposableMaterial \cup PlanetMaterials(inits + 1)
  /\ disposableGeometry' = disposableGeometry \cup PlanetGeometries(inits + 1)
  /\ disposeCount' = Register(disposeCount,
                              PlanetMaterials(inits + 1) \cup PlanetGeometries(inits + 1))
  /\ sun' = inits + 1 /\ earth' = inits + 1 /\ mars' = inits + 1
  /\ rotationZ' = [b \in Bodies |-> 0]
  /\ sceneChildren' = sceneChildren \cup PlanetNodes(inits + 1)
  /\ UNCHANGED <<demo, destroys, updates, renders, directRenders, composerRenders,
                 raised, systemVelocity, earthVelocity, marsVelocity>>
  /\ UNCHANGED <<gltfVars, textureVars>>

PlanetsDestroy ==
  /\ demo = "planets"
  /\ destroys < MaxDestroy
  /\ life' = ExampleDestroy
  /\ destroys' = destroys + 1
  /\ disposeCount' = [r \in DOMAIN disposeCount |->
                         disposeCount[r] + (IF r \in disposableMaterial THEN 1 ELSE 0)
                                         + (IF r \in disposableGeometry THEN 1 ELSE 0)]
  /\ disposableGeometry' = ClearedSet(disposableGeometry)
  /\ disposableMaterial' = ClearedSet(disposableMaterial)
  /\ sceneChildren' = {}
  /\ UNCHANGED <<demo, inits, updates, renders, directRenders, composerRenders, raised,
                 sun, earth, mars, rotationZ, systemVelocity, earthVelocity,
                 marsVelocity>>
  /\ UNCHANGED <<gltfVars, textureVars>>

PlanetsUpdate(delta) ==
  /\ demo = "planets"
  /\ updates < MaxUpdates
  /\ updates' = updates + 1
  /\ rotationZ' = IF earth # 0 /\ sun # 0 /\ mars # 0
                  THEN [b \in Bodies |-> rotationZ[b] + BodyVelocity(b)]
                  ELSE rotationZ
  /\ directRenders' = directRenders + 1
  /\ UNCHANGED <<demo, life, inits, destroys, renders, sceneChildren, disposeCount,
                 composerRenders, raised, disposableMaterial, disposableGeometry,
                 sun, earth, mars, systemVelocity, earthVelocity, marsVelocity>>
  /\ UNCHANGED <<gltfVars, textureVars>>

(* render() is inherited from Example. *)
PlanetsRender ==
  /\ demo = "planets"
  /\ renders < MaxRenders
  /\ renders' = renders + 1
  /\ directRenders' = ExampleRender(directRenders)
  /\ UNCHANGED <<demo, life, inits, destroys, updates, sceneChildren, disposeCount,
                 composerRenders, raised, planetVars, gltfVars, textureVars>>

(* The debug panel writes a velocity through the binding initialize() registered. *)
PlanetsGuiChange(body, v) ==
  /\ demo = "planets"
  /\ inits > 0
  /\ systemVelocity' = IF body = "sun" THEN v ELSE systemVelocity
  /\ earthVelocity' = IF body = "earth" THEN v ELSE earthVelocity
  /\ marsVelocity' = IF body = "mars" THEN v ELSE marsVelocity
  /\ BodyVelocity(body) # v
  /\ UNCHANGED <<commonVars, disposableMaterial, disposableGeometry, sun, earth, mars,
                 rotationZ, gltfVars, textureVars>>

NextPlanets ==
  \/ PlanetsInitialize
  \/ PlanetsDestroy
  \/ \E delta \in Deltas : PlanetsUpdate(delta)
  \/ PlanetsRender
  \/ \E body \in Bodies, v \in GuiVelocities : PlanetsGuiChange(body, v)

InitPlanets == Init /\ demo = "planets"
SpecPlanets == InitPlanets /\ [][NextPlanets]_vars

----------------------------------------------------------------------------
(* TextureExample *)

Textures == 1..TextureCount

(* loadManager.onLoad started as soon as one texture load has ended. *)
OnLoadFiresEarly(ended) == ended # {}

(* loadManager.onLoad fires when every load the manager was given has ended;
   the manager was given the four texture loads, and only those. *)
OnLoadFires(ended) == ended = Textures

(* The material and geometries initialize() number g creates itself. *)
TextureResources(g) == {<<"material", g>>, <<"planeGeometry", g>>, <<"shadowMaterial", g>>}

TextureInitialize ==
  /\ demo = "texture"
  /\ inits < MaxInitTexture
  /\ life' = ExampleInitialize
  /\ inits' = inits + 1
  /\ texturesLoaded' = Append(texturesLoaded, {})
  /\ objLoad' = Append(objLoad, "idle")
  /\ hdrLoad' = Append(hdrLoad, "pending")
  /\ meshMaterial' = Append(meshMaterial, <<>>)
  /\ disposeCount' = Register(disposeCount, TextureResources(inits + 1))
  /\ sceneChildren' = sceneChildren \cup {<<"directionalLight", inits + 1>>,
                                          <<"plane", inits + 1>>}
  /\ UNCHANGED <<demo, destroys, updates, renders, directRenders, composerRenders,
                 raised, environment>>
  /\ UNCHANGED <<gltfVars, planetVars>>

(* The load of texture i of initialize() number g ends (loaded or failed: the
   manager counts both); when the manager's onLoad fires, the OBJ load starts. *)
TextureLoadEnded(g, i) ==
  /\ demo = "texture"
  /\ g \in DOMAIN texturesLoaded
  /\ i \notin texturesLoaded[g]
  /\ texturesLoaded' = [texturesLoaded EXCEPT ![g] = @ \cup {i}]
  /\ objLoad' = IF OnLoadFires(texturesLoaded[g] \cup {i})
                THEN [objLoad EXCEPT ![g] = "pending"]
                ELSE objLoad
  /\ UNCHANGED <<commonVars, hdrLoad, meshMaterial, environment, gltfVars, planetVars>>

(* The OBJ load callback. *)
ObjLoaded(g) ==
  /\ demo = "texture"
  /\ g \in DOMAIN objLoad
  /\ objLoad[g] = "pending"
  /\ objLoad' = [objLoad EXCEPT ![g] = "done"]
  /\ meshMaterial' = [meshMaterial EXCEPT ![g] = <<"material", g>>]
  /\ disposeCount' = Register(disposeCount, {<<"objGeometry", g>>})
  /\ sceneChildren' = sceneChildren \cup {<<"obj", g>>}
  /\ UNCHANGED <<demo, life, inits, destroys, updates, renders, directRenders,
                 composerRenders, raised, texturesLoaded, hdrLoad, environment>>
  /\ UNCHANGED <<gltfVars, planetVars>>

(* The OBJ load's error callback: console.log(err). *)
ObjLoadFailed(g) ==
  /\ demo = "texture"
  /\ g \in DOMAIN objLoad
  /\ objLoad[g] = "pending"
  /\ objLoad' = [objLoad EXCEPT ![g] = "failed"]
  /\ UNCHANGED <<commonVars, texturesLoaded, hdrLoad, meshMaterial, environment,
                 gltfVars, planetVars>>

(* The HDR cubemap load callback. *)
HdrLoaded(g) ==
  /\ demo = "texture"
  /\ g \in DOMAIN hdrLoad
  /\ hdrLoad[g] = "pending"
  /\ hdrLoad' = [hdrLoad EXCEPT ![g] = "done"]
  /\ environment' = g
  /\ UNCHANGED <<commonVars, texturesLoaded, objLoad, meshMaterial, gltfVars, planetVars>>

TextureDestroy ==
  /\ demo = "texture"
  /\ destroys < MaxDestroy
  /\ life' = ExampleDestroy
  /\ destroys' = destroys + 1
  /\ UNCHANGED <<demo, inits, updates, renders, sceneChildren, disposeCount,
                 directRenders, composerRenders, raised, textureVars, gltfVars,
                 planetVars>>

TextureUpdate ==
  /\ demo = "texture"
  /\ updates < MaxUpdates
  /\ updates' = updates + 1
  /\ UNCHANGED <<demo, life, inits, destroys, renders, sceneChildren, disposeCount,
                 directRenders, composerRenders, raised, textureVars, gltfVars,
                 planetVars>>

(* render() is inherited from Example. *)
TextureRender ==
  /\ demo = "texture"
  /\ renders < MaxRenders
  /\ renders' = renders + 1
  /\ directRenders' = ExampleRender(directRenders)
  /\ UNCHANGED <<demo, life, inits, destroys, updates, sceneChildren, disposeCount,
                 composerRenders, raised, textureVars, gltfVars, planetVars>>

NextTexture ==
  \/ TextureInitialize
  \/ \E g \in 1..MaxInitTexture, i \in Textures : TextureLoadEnded(g, i)
  \/ \E g \in 1..MaxInitTexture : ObjLoaded(g)
  \/ \E g \in 1..MaxInitTexture : ObjLoadFailed(g)
  \/ \E g \in 1..MaxInitTexture : HdrLoaded(g)
  \/ TextureDestroy
  \/ TextureUpdate
  \/ TextureRender

InitTexture == Init /\ demo = "texture"
SpecTexture == InitTexture /\ [][NextTexture]_vars

----------------------------------------------------------------------------
Next == NextGLTF \/ NextPlanets \/ NextTexture

Spec == Init /\ [][Next]_vars

----------------------------------------------------------------------------
(* Properties *)

(* A step that is a call of destroy() / of update(). *)
DestroyStep == destroys' = destroys + 1
UpdateStep == updates' = updates + 1
RenderStep == renders' = renders + 1

(* A step that is the completion of an asynchronous load. *)
LoadCompletionStep ==
  \/ gltfLoad' # gltfLoad /\ inits' = inits
  \/ texturesLoaded' # texturesLoaded /\ inits' = inits
  \/ objLoad' # objLoad /\ inits' = inits
  \/ hdrLoad' # hdrLoad /\ inits' = inits

NoModelLoaded == \A g \in DOMAIN gltfLoad : gltfLoad[g].status # "done"

\* C1: in every demo, the destroy() that follows the one initialize() leaves every
\* geometry and material created so far (by initialize() or by a model load that
\* completed before destroy()) disposed exactly once.
C1_DisposedExactlyOnce ==
  [][(life = "initialized" /\ inits = 1 /\ destroys = 0 /\ DestroyStep)
       => \A r \in DOMAIN disposeCount : disposeCount'[r] = 1]_vars

\* C2: in every demo, destroy() called in the Initialized state leaves the scene
\* root with zero children.
C2_DestroyEmptiesScene ==
  [][(life = "initialized" /\ DestroyStep) => sceneChildren' = {}]_vars

\* C3: a load completion that fires after destroy() is a no-op: it adds no node to
\* the scene root, creates no animation mixer and does not set the environment.
C3_LateCallbackNoOp ==
  [][(life = "destroyed" /\ life' = "destroyed" /\ LoadCompletionStep)
       => /\ sceneChildren' = sceneChildren
          /\ mixer' = mixer
          /\ environment' = environment]_vars

\* C4: TextureExample: the loaded model is in the scene, or carries the composed
\* material, only when all four texture loads and the model load have completed.
C4_Barrier ==
  demo = "texture" =>
    \A g \in DOMAIN objLoad :
      (<<"obj", g>> \in sceneChildren \/ meshMaterial[g] # <<>>)
        => /\ \A i \in Textures : i \in texturesLoaded[g]
           /\ objLoad[g] = "done"

C4_Witness ==
  /\ demo = "texture"
  /\ \E g \in DOMAIN objLoad :
       <<"obj", g>> \in sceneChildren /\ meshMaterial[g] = <<"material", g>>

\* C5: GLTFExample: after whole frames (as many update() as render() calls) the
\* scene was submitted through the composer only, never directly to the renderer.
C5_NoDirectSubmission ==
  (demo = "gltf" /\ life = "initialized" /\ updates = renders)
    => (directRenders = 0 /\ composerRenders = renders)

\* C6: PlanetsExample: in the Initialized state every update() adds to each body's Z
\* rotation exactly that body's current velocity (sun: systemVelocity, earth:
\* earthVelocity, mars: marsVelocity), whatever the delta argument, and no other
\* call (render(), a debug-panel change) changes a rotation; so N updates at a
\* velocity held at v turn the body by N times v.
C6_RotationPerUpdate ==
  [][demo = "planets" /\ life = "initialized" /\ life' = "initialized" /\ inits' = inits
       => IF UpdateStep
          THEN /\ rotationZ'.sun = rotationZ.sun + systemVelocity
               /\ rotationZ'.earth = rotationZ.earth + earthVelocity
               /\ rotationZ'.mars = rotationZ.mars + marsVelocity
          ELSE rotationZ' = rotationZ]_vars

C6_Witness ==
  /\ demo = "planets"
  /\ life = "initialized"
  /\ updates = 2
  /\ renders = 1
  /\ rotationZ.sun = 2 * SystemVelocity0
  /\ rotationZ.earth = VelocityMax + EarthVelocity0
  /\ rotationZ.mars = 2 * MarsVelocity0

\* C7: GLTFExample: while no model load has completed, no call has raised, no
\* animation mixer was invoked, an initialized demo's scene holds the lights only,
\* and update() and render() leave the scene's children as they are.
C7_NoModelGraceful ==
  /\ [](demo = "gltf" /\ NoModelLoaded
          => /\ ~raised
             /\ mixerUpdates = 0
             /\ (life = "initialized" => sceneChildren = Lights))
  /\ [][(demo = "gltf" /\ NoModelLoaded /\ (UpdateStep \/ RenderStep))
          => sceneChildren' = sceneChildren]_vars

C7_Witness ==
  /\ demo = "gltf"
  /\ life = "initialized"
  /\ NoModelLoaded
  /\ updates = 2
  /\ renders = 1
  /\ sceneChildren = Lights

\* C8: in every demo an update() call outside the Initialized state is rejected or
\* is a no-op: it turns no body, advances no mixer and submits no render.
C8_UpdateOnlyInitialized ==
  [][(life # "initialized" /\ UpdateStep)
       => \/ raised'
          \/ /\ rotationZ' = rotationZ
             /\ mixerUpdates' = mixerUpdates
             /\ directRenders' = directRenders
             /\ composerRenders' = composerRenders]_vars

\* C9: GLTFExample: at any point after construction no resize() has raised, and
\* the depth target and the composer have the size the base resize was given.
C9_ResizeSafe ==
  demo = "gltf" =>
    /\ ~raised
    /\ depthTargetSize = surfaceSize
    /\ composerSize = surfaceSize

C9_Witness ==
  /\ demo = "gltf"
  /\ life = "uninitialized"
  /\ surfaceSize = <<800, 600>>
  /\ depthTargetSize = <<800, 600>>
  /\ composerSize = <<800, 600>>

\* C10: PlanetsExample: no tracked resource is ever disposed more than once, and
\* after destroy() (until the next initialize()) both tracked sets are empty.
C10_DisposeAtMostOnce ==
  demo = "planets" =>
    /\ \A r \in DOMAIN disposeCount : disposeCount[r] <= 1
    /\ life = "destroyed" => (disposableMaterial = {} /\ disposableGeometry = {})

C10_Witness ==
  /\ demo = "planets"
  /\ inits = 1
  /\ destroys = 2
  /\ DOMAIN disposeCount # {}
  /\ \A r \in DOMAIN disposeCount : disposeCount[r] = 1

====
